---- MODULE Spec2Model ----
(***************************************************************************)
(* faster_whisper_cli.py: one invocation of main().                        *)
(*                                                                         *)
(* The state is the process' inputs (command line, environment, the        *)
(* behaviour of the faster_whisper provider for this run), the locals of   *)
(* main() (args, model, segments, text), what has been written to the      *)
(* standard streams, and the exit status.                                  *)
(*                                                                         *)
(* Python's None and "not given" are the empty tuple <<>>; a present value *)
(* v is <<v>>.  Transcript text is a sequence of one-character strings.    *)
(***************************************************************************)
EXTENDS Integers, Sequences, FiniteSets, TLC

VARIABLES argv, environ, provider,
          pc, args, model, transcribeCall, loads, transcribes,
          segments, reads, parts, text, prints, stdout, stderr, exitCode

vars == <<argv, environ, provider, pc, args, model, transcribeCall, loads,
          transcribes, segments, reads, parts, text, prints, stdout, stderr, exitCode>>

inputs == <<argv, environ, provider>>

----------------------------------------------------------------------------
(* Bounds of the explored inputs *)

\* longest segment text drawn from Chars
MaxLen == 2
\* most segments the provider yields in one run
MaxSegs == 3

----------------------------------------------------------------------------
(* Text *)

None == <<>>
Some(v) == <<v>>

\* characters for which str.isspace() is true (the ones used here)
Whitespace == {" ", "\t", "\n"}
IsSpace(c) == c \in Whitespace

\* str.lstrip(): drop characters from the left while they are whitespace
RECURSIVE LStrip(_)
LStrip(s) == IF s # <<>> /\ IsSpace(Head(s)) THEN LStrip(Tail(s)) ELSE s

\* str.rstrip(): drop characters from the right while they are whitespace
RECURSIVE RStrip(_)
RStrip(s) ==
    IF s # <<>> /\ IsSpace(s[Len(s)]) THEN RStrip(SubSeq(s, 1, Len(s) - 1)) ELSE s

Strip_LeftOnly(s) == LStrip(s)

\* str.strip() with no argument
Strip(s) == RStrip(LStrip(s))

RECURSIVE JoinFrom(_, _, _, _)
JoinFrom(sep, items, i, acc) ==
    IF i > Len(items) THEN acc
    ELSE JoinFrom(sep, items, i + 1,
                  IF i = 1 THEN items[1] ELSE acc \o sep \o items[i])

\* sep.join(items): the items in order with sep between consecutive ones
Join(sep, items) == JoinFrom(sep, items, 1, <<>>)

----------------------------------------------------------------------------
(* Environment and command line *)

EnvNames == {"FASTER_WHISPER_MODEL", "FASTER_WHISPER_LANGUAGE",
             "FASTER_WHISPER_DEVICE", "FASTER_WHISPER_COMPUTE"}

Getenv_EmptyIsUnset(key, default) ==
    IF environ[key] # None /\ environ[key] # Some("") THEN environ[key] ELSE default

\* os.getenv(key, default): the variable's value when it is set (the empty
\* string included), else default
Getenv(key, default) ==
    IF environ[key] # None THEN environ[key] ELSE default

\* the default= of each add_argument call, evaluated when the parser is built
ModelDefault == Getenv("FASTER_WHISPER_MODEL", Some("base"))
LanguageDefault == Getenv("FASTER_WHISPER_LANGUAGE", None)
DeviceDefault == Getenv("FASTER_WHISPER_DEVICE", Some("cpu"))
ComputeTypeDefault == Getenv("FASTER_WHISPER_COMPUTE", Some("int8"))

\* an optional argument of the namespace: the value given on the command
\* line, else the argument's default
OptionValue(flag, default) == IF flag # None THEN flag ELSE default

ParseOutcome_OptionalInput(a) ==
    IF a.malformed /\ ~(a.help /\ a.helpFirst) THEN "error"
    ELSE IF a.help THEN "help"
    ELSE IF a.extra THEN "error"
    ELSE "ok"

\* ArgumentParser.parse_args() on the command line a.  The scan runs left
\* to right: an option that lacks its value (or an ambiguous abbreviation)
\* is an error where it is met, -h/--help prints the help and exits where
\* it is met; a missing positional and unrecognized arguments are errors
\* reported after the scan.
ParseOutcome(a) ==
    IF a.malformed /\ ~(a.help /\ a.helpFirst) THEN "error"
    ELSE IF a.help THEN "help"
    ELSE IF a.input = None THEN "error"
    ELSE IF a.extra THEN "error"
    ELSE "ok"

\* the namespace parse_args() returns
Namespace(a) ==
    [input        |-> a.input,
     model        |-> OptionValue(a.model, ModelDefault),
     language     |-> OptionValue(a.language, LanguageDefault),
     device       |-> OptionValue(a.device, DeviceDefault),
     compute_type |-> OptionValue(a.compute_type, ComputeTypeDefault)]

\* what argparse and the interpreter write for this run, as single symbols
HelpMessage == "usage: faster_whisper_cli.py [-h] ... (help)"
UsageError == "usage: faster_whisper_cli.py ... error"
Traceback == "Traceback (most recent call last)"

----------------------------------------------------------------------------
(* Input sets *)

Chars == {"a", " "}

SeqsUpTo(S, n) == UNION {[1..k -> S] : k \in 0..n}

Texts == SeqsUpTo(Chars, MaxLen)

HelloWorldSegs == << <<" ", " ", "h", "e", "l", "l", "o", " ">>,
                     <<"w", "o", "r", "l", "d", " ", " ">> >>
HelloWorld == <<"h", "e", "l", "l", "o", " ", "w", "o", "r", "l", "d">>

ExtraSegs == { HelloWorldSegs,
               << <<"\t", "a", " ", " ", "b", "\n">>, <<"\n", "\t">>, <<" ", "c", "\t">> >>,
               << <<" ">>, <<"\t", "a", "\n">> >> }

ArgvAll ==
    { a \in [input : {None, Some("a.wav")},
             model : {None, Some("small")},
             language : {None, Some("en")},
             device : {None, Some("auto")},
             compute_type : {None, Some("float16")},
             help : BOOLEAN, malformed : BOOLEAN, helpFirst : BOOLEAN,
             extra : BOOLEAN] :
        \* helpFirst only orders a help flag and a malformed option
        a.helpFirst => (a.help /\ a.malformed) }

EnvValues(k) ==
    CASE k = "FASTER_WHISPER_MODEL" -> {None, Some(""), Some("tiny")}
      [] k = "FASTER_WHISPER_LANGUAGE" -> {None, Some(""), Some("de")}
      [] k = "FASTER_WHISPER_DEVICE" -> {None, Some(""), Some("cuda")}
      [] k = "FASTER_WHISPER_COMPUTE" -> {None, Some(""), Some("int8_float16")}

EnvironAll == { e \in [EnvNames -> {None, Some(""), Some("tiny"), Some("de"),
                                    Some("cuda"), Some("int8_float16")}] :
                  \A k \in EnvNames : e[k] \in EnvValues(k) }

EnvironUnset == [k \in EnvNames |-> None]

PlainArgv == [input |-> Some("a.wav"), model |-> None, language |-> None,
              device |-> None, compute_type |-> None, help |-> FALSE,
              malformed |-> FALSE, helpFirst |-> FALSE, extra |-> FALSE]

\* the provider's behaviour in this run: whether WhisperModel(...) and
\* transcribe(...) return or raise, the segments the generator yields, and
\* whether it then ends or raises
Provider(loadOk, transcribeOk, segs, iterOk) ==
    [loadOk |-> loadOk, transcribeOk |-> transcribeOk, segs |-> segs,
     iterOk |-> iterOk]

FailingProviders == { Provider(FALSE, TRUE, <<>>, TRUE),
                      Provider(TRUE, FALSE, <<>>, TRUE) }

ProvidersFew ==
    FailingProviders
    \cup { Provider(TRUE, TRUE, s, ok) :
             s \in {<<>>, << <<" ", "a">>, <<>>, <<"a", " ">> >>, HelloWorldSegs},
             ok \in BOOLEAN }

ProvidersMany ==
    FailingProviders
    \cup { Provider(TRUE, TRUE, s, ok) :
             s \in SeqsUpTo(Texts, MaxSegs) \cup ExtraSegs, ok \in BOOLEAN }

----------------------------------------------------------------------------
(* main() *)

Locals0 ==
    /\ pc = "parse"
    /\ args = None
    /\ model = None
    /\ transcribeCall = None
    /\ loads = 0
    /\ transcribes = 0
    /\ segments = None
    /\ reads = <<>>
    /\ parts = <<>>
    /\ text = None
    /\ prints = 0
    /\ stdout = <<>>
    /\ stderr = <<>>
    /\ exitCode = None

\* every command line and environment, a few provider behaviours
Init ==
    /\ argv \in ArgvAll
    /\ environ \in EnvironAll
    /\ provider \in ProvidersFew
    /\ Locals0

\* every provider behaviour within the bounds, a few command lines
InitRender ==
    /\ environ = EnvironUnset
    /\ \/ argv = PlainArgv /\ provider \in ProvidersMany
       \/ /\ argv \in {[PlainArgv EXCEPT !.input = None],
                       [PlainArgv EXCEPT !.help = TRUE],
                       [PlainArgv EXCEPT !.language = Some("en")]}
          /\ provider \in ProvidersFew
    /\ Locals0

\* an uncaught exception: the interpreter prints the traceback and exits 1
Uncaught ==
    /\ stderr' = Append(stderr, Traceback)
    /\ exitCode' = Some(1)
    /\ pc' = "exited"

\* parse_args() rejects the command line: usage and error on stderr, exit 2
ParseUsageError ==
    /\ pc = "parse"
    /\ ParseOutcome(argv) = "error"
    /\ stderr' = Append(stderr, UsageError)
    /\ exitCode' = Some(2)
    /\ pc' = "exited"
    /\ UNCHANGED <<inputs, args, model, transcribeCall, loads, transcribes,
                   segments, reads, parts, text, prints, stdout>>

\* parse_args() meets -h/--help: help on stdout, exit 0
ParseHelp ==
    /\ pc = "parse"
    /\ ParseOutcome(argv) = "help"
    /\ stdout' = Append(stdout, HelpMessage)
    /\ exitCode' = Some(0)
    /\ pc' = "exited"
    /\ UNCHANGED <<inputs, args, model, transcribeCall, loads, transcribes,
                   segments, reads, parts, text, prints, stderr>>

ParseOk_SkipLoad ==
    /\ pc = "parse"
    /\ ParseOutcome(argv) = "ok"
    /\ args' = Some(Namespace(argv))
    /\ pc' = "transcribe"
    /\ UNCHANGED <<inputs, model, transcribeCall, loads, transcribes, segments,
                   reads,
                   parts, text, prints, stdout, stderr, exitCode>>

\* args = parser.parse_args()
ParseOk ==
    /\ pc = "parse"
    /\ ParseOutcome(argv) = "ok"
    /\ args' = Some(Namespace(argv))
    /\ pc' = "load"
    /\ UNCHANGED <<inputs, model, transcribeCall, loads, transcribes, segments,
                   reads,
                   parts, text, prints, stdout, stderr, exitCode>>


\* what WhisperModel(args.model, device=..., compute_type=...) is called with
ModelCall_DefaultDevice(ns) ==
    [model_size_or_path |-> ns.model, device |-> Some("cpu"),
     compute_type |-> ns.compute_type]

ModelCall(ns) ==
    [model_size_or_path |-> ns.model, device |-> ns.device,
     compute_type |-> ns.compute_type]

\* model = WhisperModel(...) returns
LoadModelOk ==
    /\ pc = "load"
    /\ provider.loadOk
    /\ loads' = loads + 1
    /\ model' = Some(ModelCall(args[1]))
    /\ pc' = "transcribe"
    /\ UNCHANGED <<inputs, args, transcribeCall, transcribes, segments, reads,
                   parts, text, prints, stdout, stderr, exitCode>>

\* model = WhisperModel(...) raises
LoadModelFail ==
    /\ pc = "load"
    /\ ~provider.loadOk
    /\ loads' = loads + 1
    /\ Uncaught
    /\ UNCHANGED <<inputs, args, model, transcribeCall, transcribes, segments,
                   reads, parts, text, prints, stdout>>

\* what model.transcribe(args.input, language=args.language) is called with
TranscribeArgs_NoLanguage(ns) == [audio |-> ns.input, language |-> None]

TranscribeArgs(ns) == [audio |-> ns.input, language |-> ns.language]

\* segments, _info = model.transcribe(...) returns a fresh generator
TranscribeOk ==
    /\ pc = "transcribe"
    /\ provider.transcribeOk
    /\ transcribes' = transcribes + 1
    /\ transcribeCall' = Some(TranscribeArgs(args[1]))
    /\ segments' = Some(0)
    /\ pc' = "iter"
    /\ UNCHANGED <<inputs, args, model, loads, reads, parts, text, prints,
                   stdout, stderr, exitCode>>

\* model.transcribe(...) raises
TranscribeFail ==
    /\ pc = "transcribe"
    /\ ~provider.transcribeOk
    /\ transcribes' = transcribes + 1
    /\ transcribeCall' = Some(TranscribeArgs(args[1]))
    /\ Uncaught
    /\ UNCHANGED <<inputs, args, model, loads, segments, reads, parts, text,
                   prints, stdout>>

\* seg.text.strip()
SegText(seg) == Strip(seg)

\* the index of the segment the generator expression takes next
NextRead_SkipOne(yielded) == IF yielded = 0 THEN 1 ELSE yielded + 2

NextRead(yielded) == yielded + 1

\* join pulls the next segment through the generator expression
IterNext ==
    /\ pc = "iter"
    /\ NextRead(segments[1]) <= Len(provider.segs)
    /\ LET i == NextRead(segments[1]) IN
         /\ segments' = Some(i)
         /\ reads' = Append(reads, i)
         /\ parts' = Append(parts, SegText(provider.segs[i]))
    /\ UNCHANGED <<inputs, pc, args, model, transcribeCall, loads, transcribes,
                   text, prints, stdout, stderr, exitCode>>

IterRaise_PrintPartial ==
    /\ pc = "iter"
    /\ NextRead(segments[1]) > Len(provider.segs)
    /\ ~provider.iterOk
    /\ stdout' = stdout \o Strip(Join(<<" ">>, parts)) \o <<"\n">>
    /\ prints' = prints + 1
    /\ Uncaught
    /\ UNCHANGED <<inputs, args, model, transcribeCall, loads, transcribes,
                   segments, reads, parts, text>>

\* the generator raises instead of yielding or ending
IterRaise ==
    /\ pc = "iter"
    /\ NextRead(segments[1]) > Len(provider.segs)
    /\ ~provider.iterOk
    /\ Uncaught
    /\ UNCHANGED <<inputs, args, model, transcribeCall, loads, transcribes,
                   segments, reads, parts, text, prints, stdout>>

Transcript_NoOuterStrip(items) == Join(<<" ">>, items)

\* " ".join(...).strip()
Transcript(items) == Strip(Join(<<" ">>, items))

\* the generator is exhausted: text = " ".join(...).strip()
Render ==
    /\ pc = "iter"
    /\ NextRead(segments[1]) > Len(provider.segs)
    /\ provider.iterOk
    /\ text' = Some(Transcript(parts))
    /\ pc' = "print"
    /\ UNCHANGED <<inputs, args, model, transcribeCall, loads, transcribes,
                   segments, reads, parts, prints, stdout, stderr, exitCode>>

\* what print(s) writes to standard output
Printed_SkipEmpty(s) == IF s = <<>> THEN <<>> ELSE s \o <<"\n">>

Printed(s) == s \o <<"\n">>

\* print(text)
PrintText ==
    /\ pc = "print"
    /\ stdout' = stdout \o Printed(text[1])
    /\ prints' = prints + 1
    /\ pc' = "return"
    /\ UNCHANGED <<inputs, args, model, transcribeCall, loads, transcribes,
                   segments, reads, parts, text, stderr, exitCode>>

\* return 0, which SystemExit turns into the exit status
Return ==
    /\ pc = "return"
    /\ exitCode' = Some(0)
    /\ pc' = "exited"
    /\ UNCHANGED <<inputs, args, model, transcribeCall, loads, transcribes,
                   segments, reads, parts, text, prints, stdout, stderr>>

Next ==
    \/ ParseUsageError
    \/ ParseHelp
    \/ ParseOk
    \/ LoadModelOk
    \/ LoadModelFail
    \/ TranscribeOk
    \/ TranscribeFail
    \/ IterNext
    \/ IterRaise
    \/ Render
    \/ PrintText
    \/ Return

Spec == Init /\ [][Next]_vars

SpecRender == InitRender /\ [][Next]_vars

----------------------------------------------------------------------------
(* What the properties are stated in *)

\* flag > environment variable > built-in default
Resolved(flag, envValue, builtin) ==
    CASE flag # None -> flag
      [] flag = None /\ envValue # None -> envValue
      [] OTHER -> builtin

\* s from its first to its last non-whitespace character
Trimmed(s) ==
    LET keep == {k \in 1..Len(s) : ~IsSpace(s[k])} IN
      IF keep = {} THEN <<>>
      ELSE SubSeq(s, CHOOSE k \in keep : \A m \in keep : k <= m,
                     CHOOSE k \in keep : \A m \in keep : k >= m)

\* the texts with one space between neighbours
RECURSIVE SpaceJoined(_)
SpaceJoined(ss) ==
    IF ss = <<>> THEN <<>>
    ELSE IF Len(ss) = 1 THEN ss[1]
    ELSE ss[1] \o <<" ">> \o SpaceJoined(Tail(ss))

\* the line a run over these segments is to print
ExpectedLine(segs) ==
    Trimmed(SpaceJoined([i \in 1..Len(segs) |-> Trimmed(segs[i])])) \o <<"\n">>

UpTo(n) == [i \in 1..n |-> i]

Exited == pc = "exited"
ExitedNonZero == Exited /\ exitCode # None /\ exitCode # Some(0)

----------------------------------------------------------------------------
(* Properties *)

\* C1: each of model, language, device, compute_type in the parsed
\* namespace is the flag's value when the flag is passed, else the
\* environment variable's value when it is set, else the built-in default
\* ("base", None, "cpu", "int8"), for every combination of flags and
\* environment variables.
C1_Precedence ==
    args # None =>
      /\ args[1].model =
           Resolved(argv.model, environ["FASTER_WHISPER_MODEL"], Some("base"))
      /\ args[1].language =
           Resolved(argv.language, environ["FASTER_WHISPER_LANGUAGE"], None)
      /\ args[1].device =
           Resolved(argv.device, environ["FASTER_WHISPER_DEVICE"], Some("cpu"))
      /\ args[1].compute_type =
           Resolved(argv.compute_type, environ["FASTER_WHISPER_COMPUTE"], Some("int8"))

C1_Witness ==
    /\ args # None
    /\ argv.model # None /\ environ["FASTER_WHISPER_MODEL"] # None
    /\ argv.language = None /\ environ["FASTER_WHISPER_LANGUAGE"] = Some("")
    /\ argv.device = None /\ environ["FASTER_WHISPER_DEVICE"] = Some("cuda")
    /\ argv.compute_type = None /\ environ["FASTER_WHISPER_COMPUTE"] = None

NoModelWork == loads = 0 /\ transcribes = 0 /\ model = None /\ transcribeCall = None

\* C2 as stated: whenever the positional input is missing, the run ends
\* with a usage error and a non-zero exit code, with no model constructed,
\* no transcription and nothing on standard output.
C2_Original ==
    argv.input = None =>
      /\ NoModelWork
      /\ stdout = <<>>
      /\ Exited => (exitCode = Some(2) /\ stderr = <<UsageError>>)

\* C2 amended: when the positional input is missing and no -h/--help flag
\* is passed, the run ends with a usage error and a non-zero exit code,
\* with no model constructed, no transcription and nothing on standard
\* output.
C2_MissingInput ==
    (argv.input = None /\ ~argv.help) =>
      /\ NoModelWork
      /\ stdout = <<>>
      /\ Exited => (exitCode = Some(2) /\ stderr = <<UsageError>>)

C2_Witness ==
    /\ Exited
    /\ argv.input = None
    /\ ~argv.help /\ ~argv.malformed /\ ~argv.extra

\* C3: what is printed is each segment's text trimmed, joined with single
\* spaces in production order, trimmed, and followed by a newline; the
\* segments "  hello " and "world  " print "hello world".
C3_PrintedLine ==
    prints > 0 =>
      /\ stdout = ExpectedLine(provider.segs)
      /\ provider.segs = HelloWorldSegs => stdout = HelloWorld \o <<"\n">>

C3_Witness == prints = 1 /\ provider.segs = HelloWorldSegs

\* C4: when the model loads and transcription yields no segment, the run
\* prints the empty line and exits 0.
C4_EmptyResult ==
    (Exited /\ model # None /\ segments # None
       /\ provider.segs = <<>> /\ provider.iterOk) =>
      /\ stdout = <<"\n">>
      /\ exitCode = Some(0)
      /\ stderr = <<>>

C4_Witness ==
    /\ Exited /\ model # None /\ segments # None
    /\ provider.segs = <<>> /\ provider.iterOk

OutcomeTranscript ==
    exitCode = Some(0) /\ prints = 1 /\ stdout = ExpectedLine(provider.segs)
OutcomeFailure ==
    exitCode # None /\ exitCode # Some(0) /\ prints = 0 /\ stdout = <<>>
OutcomeHelp ==
    exitCode = Some(0) /\ prints = 0 /\ stdout = <<HelpMessage>>

SomethingFails ==
    \/ ParseOutcome(argv) = "error"
    \/ /\ ParseOutcome(argv) = "ok"
       /\ ~(provider.loadOk /\ provider.transcribeOk /\ provider.iterOk)

\* C5 as stated: a run that has ended has either exited 0 with the whole
\* transcript printed once, or exited non-zero with nothing of it printed;
\* the latter whenever parsing, loading, transcribing or iterating fails.
C5_Original ==
    /\ loads <= 1 /\ transcribes <= 1
    /\ Exited =>
         /\ OutcomeTranscript \/ OutcomeFailure
         /\ ~(OutcomeTranscript /\ OutcomeFailure)
         /\ SomethingFails => OutcomeFailure

\* C5 amended: a run that has ended has exactly one of three outcomes:
\* exit 0 with the whole transcript printed once; non-zero exit with
\* nothing printed on standard output, whenever parsing, loading,
\* transcribing or iterating fails; or, when parsing reaches -h/--help,
\* exit 0 with the help message alone on standard output.  Nothing is
\* attempted twice.
C5_Outcomes ==
    /\ loads <= 1 /\ transcribes <= 1
    /\ Exited =>
         /\ OutcomeTranscript \/ OutcomeFailure \/ OutcomeHelp
         /\ ~(OutcomeTranscript /\ OutcomeFailure)
         /\ ~(OutcomeTranscript /\ OutcomeHelp)
         /\ ~(OutcomeFailure /\ OutcomeHelp)
         /\ SomethingFails => OutcomeFailure
         /\ OutcomeHelp <=> ParseOutcome(argv) = "help"

C5_Witness ==
    /\ Exited
    /\ ~provider.iterOk
    /\ provider.segs # <<>>
    /\ segments = Some(Len(provider.segs))

\* C6: the model constructor receives the resolved model, device and
\* compute type (device "cuda" when FASTER_WHISPER_DEVICE=cuda and no
\* --device), and transcribe receives the positional input as given.
C6_CallArguments ==
    /\ model # None =>
         /\ model[1].model_size_or_path = args[1].model
         /\ model[1].device = args[1].device
         /\ model[1].compute_type = args[1].compute_type
         /\ model[1].model_size_or_path =
              Resolved(argv.model, environ["FASTER_WHISPER_MODEL"], Some("base"))
         /\ model[1].device =
              Resolved(argv.device, environ["FASTER_WHISPER_DEVICE"], Some("cpu"))
         /\ model[1].compute_type =
              Resolved(argv.compute_type, environ["FASTER_WHISPER_COMPUTE"], Some("int8"))
         /\ (environ["FASTER_WHISPER_DEVICE"] = Some("cuda") /\ argv.device = None)
              => model[1].device = Some("cuda")
    /\ transcribeCall # None => transcribeCall[1].audio = argv.input

C6_Witness ==
    /\ model # None /\ transcribeCall # None
    /\ environ["FASTER_WHISPER_DEVICE"] = Some("cuda") /\ argv.device = None

\* C7: the model is loaded at most once and transcription called at most
\* once, in the order parse, load, transcribe, print: no load before the
\* arguments are parsed, no transcription before a successful load, no
\* print(text) before transcription was called and its segments were all
\* consumed.
C7_Order ==
    /\ loads <= 1 /\ transcribes <= 1 /\ prints <= 1
    /\ loads > 0 => args # None
    /\ transcribes > 0 => (loads = 1 /\ model # None)
    /\ text # None =>
         (transcribes = 1 /\ segments = Some(Len(provider.segs))
            /\ Len(parts) = Len(provider.segs))
    /\ prints > 0 => text # None

C7_Witness == Exited /\ prints = 1 /\ loads = 1 /\ transcribes = 1

\* C8: transcribe receives no language hint exactly when --language is not
\* passed and FASTER_WHISPER_LANGUAGE is unset; otherwise it receives the
\* resolved language string.
C8_LanguageHint ==
    transcribeCall # None =>
      /\ transcribeCall[1].language = None
           <=> (argv.language = None /\ environ["FASTER_WHISPER_LANGUAGE"] = None)
      /\ argv.language # None => transcribeCall[1].language = argv.language
      /\ (argv.language = None /\ environ["FASTER_WHISPER_LANGUAGE"] # None)
           => transcribeCall[1].language = environ["FASTER_WHISPER_LANGUAGE"]

C8_Witness ==
    /\ transcribeCall # None
    /\ argv.language = None
    /\ environ["FASTER_WHISPER_LANGUAGE"] = Some("")

\* C9: the segments are taken from the generator once each, first to last,
\* none skipped or taken again, and the generator is never restarted.
C9_ConsumedOnce ==
    /\ transcribes <= 1
    /\ segments = None => reads = <<>>
    /\ segments # None =>
         /\ segments[1] <= Len(provider.segs)
         /\ reads = UpTo(segments[1])
         /\ parts = [i \in 1..segments[1] |-> Trimmed(provider.segs[i])]
    /\ text # None => reads = UpTo(Len(provider.segs))

C9_Witness ==
    /\ text # None
    /\ Len(provider.segs) = MaxSegs
    /\ reads = UpTo(MaxSegs)

LineOf(out) == SubSeq(out, 1, Len(out) - 1)

\* C10: the printed line has no whitespace at its start or before its
\* terminating newline, whatever the segments (empty or whitespace-only
\* first and last segments included).
C10_NoOuterWhitespace ==
    prints > 0 =>
      /\ stdout # <<>>
      /\ stdout[Len(stdout)] = "\n"
      /\ LET line == LineOf(stdout) IN
           line # <<>> => (~IsSpace(line[1]) /\ ~IsSpace(line[Len(line)]))

C10_Witness ==
    /\ prints > 0
    /\ Len(provider.segs) = 3
    /\ provider.segs[1] # <<>> /\ Trimmed(provider.segs[1]) = <<>>
    /\ Trimmed(provider.segs[2]) # <<>>
    /\ Trimmed(provider.segs[3]) = <<>>

====
